---- MODULE Spec2Model ----
(***************************************************************************)
(* The REST client factory of src/src/lib/api.js (apiFactory and the       *)
(* request functions it builds) together with its caller App.render.       *)
(*                                                                         *)
(* JavaScript strings are sequences of one-character strings, so that      *)
(* join, toUpperCase, camelCase and JSON.stringify are computed character  *)
(* by character.  A JavaScript primitive is a record [t, v]: its type tag  *)
(* and the characters of String(value).                                    *)
(***************************************************************************)
EXTENDS Integers, Sequences, FiniteSets, TLC

VARIABLES stateMap, api, calls, microtasks, settled, store

vars == <<stateMap, api, calls, microtasks, settled, store>>

-----------------------------------------------------------------------------
(* Bounds *)

\* number of ApiCalls the application issues in a behaviour of Spec
MaxCalls == 1

\* number of times App.render runs in a behaviour of AppSpec
MaxRenders == 3

-----------------------------------------------------------------------------
(* Strings *)

Lower == <<"a","b","c","d","e","f","g","h","i","j","k","l","m",
           "n","o","p","q","r","s","t","u","v","w","x","y","z">>

Upper == <<"A","B","C","D","E","F","G","H","I","J","K","L","M",
           "N","O","P","Q","R","S","T","U","V","W","X","Y","Z">>

toUpperCaseChar(c) ==
    IF \E i \in 1..Len(Lower) : Lower[i] = c
    THEN Upper[CHOOSE i \in 1..Len(Lower) : Lower[i] = c]
    ELSE c

toUpperCase(s) == [i \in 1..Len(s) |-> toUpperCaseChar(s[i])]

upperFirst(s) == IF s = <<>> THEN s ELSE <<toUpperCaseChar(Head(s))>> \o Tail(s)

RECURSIVE join(_, _)
join(parts, sep) ==
    IF parts = <<>> THEN <<>>
    ELSE IF Len(parts) = 1 THEN Head(parts)
    ELSE Head(parts) \o sep \o join(Tail(parts), sep)

\* the words of a string of lower-case letters and underscores: its maximal
\* runs of letters (lodash words() on such a string)
RECURSIVE words(_, _, _)
words(s, cur, acc) ==
    IF s = <<>> THEN (IF cur = <<>> THEN acc ELSE Append(acc, cur))
    ELSE IF Head(s) = "_"
         THEN words(Tail(s), <<>>, IF cur = <<>> THEN acc ELSE Append(acc, cur))
         ELSE words(Tail(s), Append(cur, Head(s)), acc)

RECURSIVE camelCaseWords(_, _)
camelCaseWords(ws, index) ==
    IF ws = <<>> THEN <<>>
    ELSE (IF index > 0 THEN upperFirst(Head(ws)) ELSE Head(ws))
         \o camelCaseWords(Tail(ws), index + 1)

camelCase(s) == camelCaseWords(words(s, <<>>, <<>>), 0)

-----------------------------------------------------------------------------
(* JavaScript values *)

Undefined == [t |-> "undefined", v |-> <<"u","n","d","e","f","i","n","e","d">>]
Null      == [t |-> "null", v |-> <<"n","u","l","l">>]
Num(digits) == [t |-> "number", v |-> digits]
Str(chars)  == [t |-> "string", v |-> chars]
Bool(b)     == [t |-> "boolean",
                v |-> IF b THEN <<"t","r","u","e">> ELSE <<"f","a","l","s","e">>]

\* ToBoolean
Truthy(x) ==
    CASE x.t = "undefined" -> FALSE
      [] x.t = "null"      -> FALSE
      [] x.t = "number"    -> x.v # <<"0">>
      [] x.t = "string"    -> x.v # <<>>
      [] x.t = "boolean"   -> x.v = <<"t","r","u","e">>
      [] OTHER             -> TRUE

\* the ! operator
Not(x) == Bool(~Truthy(x))

\* the === operator on primitives
StrictEquals(x, y) == x.t = y.t /\ x.v = y.v

\* x || y
Or(x, y) == IF Truthy(x) THEN x ELSE y

\* the string Array.prototype.join uses for an element
JoinString(x) == IF x.t \in {"undefined", "null"} THEN <<>> ELSE x.v

\* a data argument: undefined, or an object with its properties in
\* insertion order
NoData == [t |-> "undefined", props |-> <<>>]
Object(props) == [t |-> "object", props |-> props]

HasProp(obj, key) == \E i \in 1..Len(obj.props) : obj.props[i][1] = key

GetProp(obj, key) ==
    IF HasProp(obj, key)
    THEN obj.props[CHOOSE i \in 1..Len(obj.props) : obj.props[i][1] = key][2]
    ELSE Undefined

\* data?.id
OptionalId(data) == IF data.t = "undefined" THEN Undefined ELSE GetProp(data, <<"i","d">>)

Quote(chars) == <<"\"">> \o chars \o <<"\"">>

JSONvalue(x) == IF x.t = "string" THEN Quote(x.v) ELSE x.v

RECURSIVE JSONprops(_)
JSONprops(props) ==
    IF props = <<>> THEN <<>>
    ELSE IF Head(props)[2].t = "undefined" THEN JSONprops(Tail(props))
    ELSE <<Quote(Head(props)[1]) \o <<":">> \o JSONvalue(Head(props)[2])>>
         \o JSONprops(Tail(props))

\* JSON.stringify(data)
JSONstringify(data) ==
    IF data.t = "undefined" THEN Undefined
    ELSE Str(<<"{">> \o join(JSONprops(data.props), <<",">>) \o <<"}">>)

-----------------------------------------------------------------------------
(* apiFactory *)

Book    == <<"b","o","o","k">>
MyClass == <<"m","y","_","c","l","a","s","s">>

\* the resource maps handed to apiFactory, as their keys in insertion order
ResourceMaps == {<<>>, <<Book>>, <<Book, MyClass>>}

baseURL == <<"/","a","p","i">>

authToken == <<"t","o","k">>

post   == <<"p","o","s","t">>
get    == <<"g","e","t">>
patch  == <<"p","a","t","c","h">>
delete == <<"d","e","l","e","t","e">>

methods == [create |-> post, read |-> get, get |-> get,
            update |-> patch, delete |-> delete]

\* Object.keys(methods)
methodKeys == <<"create", "read", "get", "update", "delete">>

\* crossProduct(as, bs): all pairs, as-major and bs-minor
crossProduct(as, bs) ==
    [i \in 1..(Len(as) * Len(bs)) |->
        <<as[((i - 1) \div Len(bs)) + 1], bs[((i - 1) % Len(bs)) + 1]>>]

\* obj with obj[key] = value
Assign(obj, key, value) ==
    [k \in DOMAIN obj \cup {key} |-> IF k = key THEN value ELSE obj[k]]

toObjectOverwrite(obj, entry) ==
    Assign(obj, entry[1], Assign(<<>>, entry[2], entry[3]))

toObject(obj, entry) ==
    LET resource == entry[1]
        method   == entry[2]
        func     == entry[3]
    IN  IF resource \in DOMAIN obj
        THEN Assign(obj, resource, Assign(obj[resource], method, func))
        ELSE Assign(obj, resource, Assign(<<>>, method, func))

\* the closure requestFactory(resourceName, method) returns
requestFactory(resourceName, method) ==
    [resourceName |-> resourceName, method |-> method]

RECURSIVE reduceToObject(_, _)
reduceToObject(entries, obj) ==
    IF entries = <<>> THEN obj
    ELSE reduceToObject(Tail(entries), toObject(obj, Head(entries)))

apiFactory(map) ==
    LET resourceNames == map
        pairs == crossProduct(resourceNames, methodKeys)
        entries == [i \in 1..Len(pairs) |->
                      <<pairs[i][1], pairs[i][2],
                        requestFactory(pairs[i][1], methods[pairs[i][2]])>>]
    IN  reduceToObject(entries, <<>>)

\* the name of a resource's update action: verb and resource name as one
\* camel-case identifier
updateActionName(resourceName) ==
    <<"u","p","d","a","t","e">> \o upperFirst(camelCase(resourceName))

\* fromStateMap(stateMap).actions: one update action creator per resource
\* key; the creator is represented by the resource whose state it updates
fromStateMap(map) ==
    LET names == {map[i] : i \in 1..Len(map)}
    IN  [k \in {updateActionName(r) : r \in names} |->
            CHOOSE r \in names : updateActionName(r) = k]

-----------------------------------------------------------------------------
(* The request function: requestFactory(resourceName, method)(data) *)

NoError == [thrown |-> "", args |-> <<>>]

PostWithId ==
    [thrown |-> "can't post with an id. Id creation is the responsibility of the backend",
     args |-> <<>>]

MissingId(resourceName, method) ==
    [thrown |-> "missing id in call: resource: ${resourceName} method: ${method}",
     args |-> <<resourceName, method>>]

validateNoIdCheck(request, data) ==
    IF request.method = post /\ Truthy(OptionalId(data)) THEN PostWithId
    ELSE NoError

\* lines 62-70: what the request function throws before building the request
validate(request, data) ==
    LET id == OptionalId(data)
    IN  IF request.method = post /\ Truthy(id) THEN PostWithId
        ELSE IF request.method \in {patch, delete} /\ StrictEquals(id, Undefined)
             THEN MissingId(request.resourceName, request.method)
        ELSE NoError

url(request, data) ==
    LET id == OptionalId(data)
    IN  join(<<baseURL, request.resourceName, JoinString(Or(id, Str(<<>>)))>>, <<"/">>)

\* the fetch options; an absent options.body is undefined
options(request, data) ==
    LET body == JSONstringify(data)
    IN  [method |-> request.method,
         Authorization |-> <<"B","e","a","r","e","r"," ">> \o authToken,
         json |-> TRUE,
         body |-> IF StrictEquals(Not(Str(request.method)), Str(get))
                  THEN body ELSE Undefined]

trackingTypeLowerCase(request) == request.method \o <<"_">> \o request.resourceName

trackingType(request) ==
    toUpperCase(request.method \o <<"_">> \o request.resourceName)

-----------------------------------------------------------------------------
(* Response values *)

NoValue == [t |-> "none", items |-> <<>>]

Entity(id, title) == [id |-> Num(id), title |-> Str(title)]

Array(items) == [t |-> "array", items |-> items]

isArray(value) == value.t = "array"

RECURSIVE keyByFirst(_, _)
keyByFirst(items, result) ==
    IF items = <<>> THEN result
    ELSE keyByFirst(Tail(items),
                    IF Head(items).id.v \in DOMAIN result THEN result
                    ELSE Assign(result, Head(items).id.v, Head(items)))

RECURSIVE keyByInto(_, _)
keyByInto(items, result) ==
    IF items = <<>> THEN result
    ELSE keyByInto(Tail(items), Assign(result, Head(items).id.v, Head(items)))

keyByFirstWins(value) == [t |-> "mapping", items |-> keyByFirst(value.items, <<>>)]

\* keyBy(value, "id"): each element stored under the property key of its id
keyBy(value) == [t |-> "mapping", items |-> keyByInto(value.items, <<>>)]

normalizeNever(value) == value

\* line 86
normalize(value) == IF isArray(value) THEN keyBy(value) ELSE value

\* the parsed bodies the backend answers with: entities on success, an
\* error description with a non-success status
BodiesOf(status) ==
    IF status = "ok"
    THEN { Array(<<Entity(<<"1">>, <<"a">>), Entity(<<"2">>, <<"b">>),
                   Entity(<<"1">>, <<"c">>)>>),
           [t |-> "object", items |-> <<Entity(<<"5">>, <<"a">>)>>] }
    ELSE { [t |-> "object", items |-> <<[error |-> Str(<<"n","o">>)]>>] }

\* the data arguments the application passes
DataValues ==
    { NoData,
      Object(<<>>),
      Object(<< <<<<"i","d">>, Num(<<"0">>)>> >>),
      Object(<< <<<<"i","d">>, Str(<<>>)>> >>),
      Object(<< <<<<"i","d">>, Null>> >>),
      Object(<< <<<<"i","d">>, Num(<<"3","2">>)>>,
                <<<<"t","i","t","l","e">>, Str(<<"X">>)>> >>) }

-----------------------------------------------------------------------------
(* State *)

\* calls[c] is the c-th ApiCall of the behaviour:
\*   resource, operation   the keys api[resource][operation] it was read from
\*   request    the request function called, data its argument
\*   pc         where the async request function stands, or how its promise settled
\*   fetches    the requests it handed to fetch
\*   response   the HTTP status class of the response fetch resolved with
\*   tracking   the request-tracking actions it dispatched
\*   value      the value the tracking dispatch resolved with
\*   commits    the update actions it dispatched
\*   error      what its promise was rejected with
\*   result     what its promise was fulfilled with
\*   trace      its events in order
IdleCall ==
    [pc |-> "idle", resource |-> <<>>, operation |-> "", request |-> requestFactory(<<>>, <<>>),
     data |-> NoData, fetches |-> <<>>, response |-> "none", tracking |-> <<>>,
     value |-> NoValue, commits |-> <<>>, error |-> NoError, result |-> <<>>,
     trace |-> <<>>]

\* the promise response.json() returns, not yet settled
PendingJson == [promise |-> "response.json()", state |-> "pending"]

FetchFailed == [thrown |-> "TypeError: Failed to fetch", args |-> <<>>]
JsonFailed  == [thrown |-> "SyntaxError: Unexpected token in JSON", args |-> <<>>]
NotAFunction == [thrown |-> "TypeError: actions[key] is not a function", args |-> <<>>]

Range(seq) == {seq[i] : i \in 1..Len(seq)}

Init ==
    /\ stateMap \in ResourceMaps
    /\ api = apiFactory(stateMap)
    /\ calls = [c \in 1..MaxCalls |-> IdleCall]
    /\ microtasks = <<>>
    /\ settled = <<>>
    /\ store = [r \in Range(stateMap) |-> NoValue]

\* the store of the application: App imports the api built for its resources
InitApp ==
    /\ stateMap = <<Book>>
    /\ api = apiFactory(stateMap)
    /\ calls = [c \in 1..MaxRenders |-> IdleCall]
    /\ microtasks = <<>>
    /\ settled = <<>>
    /\ store = [r \in Range(stateMap) |-> NoValue]

\* calls are numbered in the order they are made
NextCall(c) ==
    /\ c \in DOMAIN calls
    /\ calls[c].pc = "idle"
    /\ \A d \in DOMAIN calls : d < c => calls[d].pc # "idle"

-----------------------------------------------------------------------------
(* Actions *)

\* api[resource][operation](data), up to its first await: lines 62-84
ApiCall(c, resource, operation, data) ==
    LET request == api[resource][operation]
        thrown  == validate(request, data)
        started == [calls[c] EXCEPT !.resource = resource,
                                    !.operation = operation,
                                    !.request = request,
                                    !.data = data]
    IN  /\ microtasks = <<>>
        /\ NextCall(c)
        /\ calls' = [calls EXCEPT ![c] =
              IF thrown # NoError
              THEN [started EXCEPT !.pc = "rejected", !.error = thrown]
              ELSE [started EXCEPT
                      !.pc = "awaitFetch",
                      !.fetches = Append(@, [url |-> url(request, data),
                                             options |-> options(request, data)]),
                      !.trace = Append(@, "fetch")]]
        /\ UNCHANGED <<stateMap, api, microtasks, settled, store>>

\* the application calls any request function of the api with any data
Invoke ==
    \E c \in DOMAIN calls, resource \in DOMAIN api, data \in DataValues :
        \E operation \in DOMAIN api[resource] :
            ApiCall(c, resource, operation, data)

\* App.render: api.book.read()
Render ==
    \E c \in DOMAIN calls : ApiCall(c, Book, "read", NoData)

\* fetch resolves with a response, whatever its HTTP status; the request
\* function resumes in a microtask
FetchResolves ==
    \E c \in DOMAIN calls, status \in {"ok", "error"} :
        /\ microtasks = <<>>
        /\ calls[c].pc = "awaitFetch"
        /\ calls' = [calls EXCEPT ![c].pc = "resume",
                                  ![c].response = status,
                                  ![c].trace = Append(@, "response")]
        /\ microtasks' = Append(microtasks, c)
        /\ UNCHANGED <<stateMap, api, settled, store>>

\* fetch rejects: the await throws and nothing catches it
FetchRejects ==
    \E c \in DOMAIN calls :
        /\ microtasks = <<>>
        /\ calls[c].pc = "awaitFetch"
        /\ calls' = [calls EXCEPT ![c].pc = "rejected",
                                  ![c].error = FetchFailed]
        /\ UNCHANGED <<stateMap, api, microtasks, settled, store>>

\* lines 82-85 after the await: response.json() is called and the tracking
\* action is dispatched with that promise as its payload
Resume ==
    /\ microtasks # <<>>
    /\ LET c == Head(microtasks)
       IN  /\ calls[c].pc = "resume"
           /\ calls' = [calls EXCEPT
                 ![c].pc = "awaitDispatch",
                 ![c].tracking = Append(@, [type |-> trackingType(calls[c].request),
                                            payload |-> PendingJson]),
                 ![c].trace = Append(@, "dispatch")]
    /\ microtasks' = Tail(microtasks)
    /\ UNCHANGED <<stateMap, api, settled, store>>

\* the payload settles with the parsed body and the tracking dispatch
\* resolves to {value}; the then callback is queued
JsonResolves ==
    \E c \in DOMAIN calls :
      \E body \in BodiesOf(calls[c].response) :
        /\ microtasks = <<>>
        /\ calls[c].pc = "awaitDispatch"
        /\ calls' = [calls EXCEPT ![c].pc = "then",
                                  ![c].value = body,
                                  ![c].trace = Append(@, "settle")]
        /\ settled' = Append(settled, c)
        /\ microtasks' = Append(microtasks, c)
        /\ UNCHANGED <<stateMap, api, store>>

\* the body is no JSON: the payload rejects, and the tracking dispatch with it
JsonRejects ==
    \E c \in DOMAIN calls :
        /\ microtasks = <<>>
        /\ calls[c].pc = "awaitDispatch"
        /\ calls' = [calls EXCEPT ![c].pc = "rejected",
                                  ![c].error = JsonFailed]
        /\ UNCHANGED <<stateMap, api, microtasks, settled, store>>

\* the reducer of a resource's update action
reduce(state, action, actions) ==
    [state EXCEPT ![actions[action.type]] = action.payload]

commitKeyPlain(resourceName) == <<"u","p","d","a","t","e","_">> \o resourceName

\* line 87
commitKey(resourceName) == camelCase(<<"u","p","d","a","t","e","_">> \o resourceName)

\* lines 85-89: the then callback
ThenCallback ==
    /\ microtasks # <<>>
    /\ LET c == Head(microtasks)
           value == normalize(calls[c].value)
           key == commitKey(calls[c].request.resourceName)
           actions == fromStateMap(stateMap)
           action == [type |-> key, payload |-> value]
       IN  /\ calls[c].pc = "then"
           /\ IF key \in DOMAIN actions
              THEN /\ calls' = [calls EXCEPT ![c].pc = "fulfilled",
                                             ![c].commits = Append(@, action),
                                             ![c].result = <<action>>,
                                             ![c].trace = Append(@, "commit")]
                   /\ store' = reduce(store, action, actions)
              ELSE /\ calls' = [calls EXCEPT ![c].pc = "rejected",
                                             ![c].error = NotAFunction]
                   /\ UNCHANGED store
    /\ microtasks' = Tail(microtasks)
    /\ UNCHANGED <<stateMap, api, settled>>

Next ==
    \/ Invoke
    \/ FetchResolves
    \/ FetchRejects
    \/ Resume
    \/ JsonResolves
    \/ JsonRejects
    \/ ThenCallback

Spec == Init /\ [][Next]_vars

NextApp ==
    \/ Render
    \/ FetchResolves
    \/ FetchRejects
    \/ Resume
    \/ JsonResolves
    \/ JsonRejects
    \/ ThenCallback

AppSpec == InitApp /\ [][NextApp]_vars

-----------------------------------------------------------------------------
(* Properties *)

Started(c) == calls[c].pc # "idle"

\* nothing has left the call: no request, no dispatch
NoEffect(c) ==
    /\ calls[c].fetches = <<>>
    /\ calls[c].tracking = <<>>
    /\ calls[c].commits = <<>>

Id == <<"i","d">>

\* event a occurs in the trace, and before any event b
Precedes(trace, a, b) ==
    \E i \in 1..Len(trace) :
        /\ trace[i] = a
        /\ \A j \in 1..Len(trace) : trace[j] = b => i < j

\* C1: create with a data object that has an id field, whatever the id's
\* value, is rejected with the error for posting with an id, before any
\* request is issued and before any dispatch.
C1_CreateWithIdRejected ==
    \A c \in DOMAIN calls :
        (Started(c) /\ calls[c].operation = "create"
            /\ calls[c].data.t = "object" /\ HasProp(calls[c].data, Id))
        => (calls[c].pc = "rejected" /\ calls[c].error = PostWithId /\ NoEffect(c))

\* C2: update or delete with data that has no id field, undefined data
\* included, is rejected with the missing-id error naming the resource and
\* the method, before any request is issued and before any dispatch.
C2_MissingIdRejected ==
    \A c \in DOMAIN calls :
        (Started(c) /\ calls[c].operation \in {"update", "delete"}
            /\ (calls[c].data.t = "undefined" \/ ~HasProp(calls[c].data, Id)))
        => /\ calls[c].pc = "rejected"
           /\ calls[c].error.thrown = MissingId(<<>>, <<>>).thrown
           /\ calls[c].error.args =
                <<calls[c].resource,
                  IF calls[c].operation = "update" THEN patch ELSE delete>>
           /\ NoEffect(c)

C2_Witness ==
    \E c \in DOMAIN calls :
        /\ calls[c].operation = "update"
        /\ calls[c].data = NoData
        /\ calls[c].pc = "rejected"

\* C3: every POST, PATCH or DELETE request carries the JSON serialization
\* of the data argument as its body, and every GET request carries no body.
C3_BodyIsSerializedData ==
    \A c \in DOMAIN calls :
        \A i \in 1..Len(calls[c].fetches) :
            LET sent == calls[c].fetches[i].options
            IN  IF sent.method = get
                THEN sent.body = Undefined
                ELSE sent.body = JSONstringify(calls[c].data)

\* the id segment of the request path: the id as a string, nothing when
\* the data carries no id value
IdSegment(data) ==
    LET id == OptionalId(data)
    IN  IF id.t \in {"undefined", "null"} THEN <<>> ELSE id.v

Slash == <<"/">>

\* C4: a call that passes validation issues one request, with the verb the
\* method table gives its operation, to baseURL/R/id when the data carries
\* an id and to baseURL/R/ when it carries none.
C4_VerbAndPath ==
    \A c \in DOMAIN calls :
        (Started(c) /\ validate(calls[c].request, calls[c].data) = NoError)
        => /\ Len(calls[c].fetches) = 1
           /\ calls[c].fetches[1].options.method =
                (CASE calls[c].operation = "create" -> post
                   [] calls[c].operation = "read"   -> get
                   [] calls[c].operation = "get"    -> get
                   [] calls[c].operation = "update" -> patch
                   [] calls[c].operation = "delete" -> delete)
           /\ calls[c].fetches[1].url =
                baseURL \o Slash \o calls[c].resource \o Slash
                        \o IdSegment(calls[c].data)

\* the id-keyed mapping of an array of entities: one key per id, each
\* holding the last element of the array with that id
KeyedByIdLastWins(items) ==
    LET keys == {items[i].id.v : i \in 1..Len(items)}
        last(k) == CHOOSE i \in 1..Len(items) :
                      /\ items[i].id.v = k
                      /\ \A j \in (i + 1)..Len(items) : items[j].id.v # k
    IN  [k \in keys |-> items[last(k)]]

ExpectedCommit(value) ==
    IF value.t = "array"
    THEN [t |-> "mapping", items |-> KeyedByIdLastWins(value.items)]
    ELSE value

\* C5: the value committed through the update action is the id-keyed
\* mapping of the response value when that is an array (the later element
\* wins a duplicate id), and the response value unchanged otherwise.
C5_CommittedValue ==
    \A c \in DOMAIN calls :
        \A i \in 1..Len(calls[c].commits) :
            calls[c].commits[i].payload = ExpectedCommit(calls[c].value)

C5_Witness ==
    \E c \in DOMAIN calls :
        /\ calls[c].pc = "fulfilled"
        /\ calls[c].value.t = "array"
        /\ \E i, j \in 1..Len(calls[c].value.items) :
              i < j /\ calls[c].value.items[i].id = calls[c].value.items[j].id
        /\ Cardinality(DOMAIN calls[c].commits[1].payload.items) = 2

\* C6 as stated: the tracking dispatch is issued before the fetch response
\* arrives.
C6_DispatchBeforeResponse ==
    \A c \in DOMAIN calls :
        calls[c].tracking # <<>>
        => Precedes(calls[c].trace, "dispatch", "response")

UpperCaseType(resource, operation) ==
    toUpperCase(methods[operation]) \o <<"_">> \o toUpperCase(resource)

\* C6 amended: the tracking action, of type VERB_RESOURCE in upper case, is
\* dispatched once, only after the fetch response has arrived and before
\* its body is parsed, with the pending response.json() as payload; a call
\* whose fetch has not resolved has dispatched nothing.
C6_DispatchAfterResponse ==
    \A c \in DOMAIN calls :
        /\ calls[c].tracking # <<>>
           => /\ Len(calls[c].tracking) = 1
              /\ calls[c].tracking[1].type =
                    UpperCaseType(calls[c].resource, calls[c].operation)
              /\ (calls[c].resource = Book /\ calls[c].operation = "read"
                  => calls[c].tracking[1].type = <<"G","E","T","_","B","O","O","K">>)
              /\ calls[c].tracking[1].payload = PendingJson
              /\ Precedes(calls[c].trace, "response", "dispatch")
              /\ Precedes(calls[c].trace, "dispatch", "settle")
        /\ calls[c].response = "none" => calls[c].tracking = <<>>
        /\ calls[c].pc \in {"awaitDispatch", "then", "fulfilled"}
           => calls[c].tracking # <<>>

C6_Witness ==
    \E c \in DOMAIN calls :
        /\ calls[c].pc = "awaitDispatch"
        /\ calls[c].trace = <<"fetch", "response", "dispatch">>
        /\ calls[c].tracking[1].payload.state = "pending"

\* C7: a call whose fetch resolved and whose tracking dispatch resolved
\* commits exactly one update action, named update<Resource> in camel case,
\* after the tracking dispatch resolved, and its promise is fulfilled with
\* the result of that dispatch; no call commits before its tracking
\* dispatch has resolved.
C7_OneCommitAfterTracking ==
    \A c \in DOMAIN calls :
        /\ (calls[c].value # NoValue /\ calls[c].pc # "then")
           => /\ calls[c].pc = "fulfilled"
              /\ Len(calls[c].commits) = 1
              /\ calls[c].commits[1].type = updateActionName(calls[c].resource)
              /\ calls[c].result = <<calls[c].commits[1]>>
              /\ calls[c].trace = <<"fetch", "response", "dispatch", "settle", "commit">>
        /\ (calls[c].value = NoValue \/ calls[c].pc = "then")
           => calls[c].commits = <<>>

C7_Witness ==
    \E c \in DOMAIN calls :
        /\ calls[c].pc = "fulfilled"
        /\ calls[c].resource = MyClass
        /\ calls[c].commits[1].type =
              <<"u","p","d","a","t","e","M","y","C","l","a","s","s">>

\* C8: a call whose fetch rejected, or whose response has a non-success
\* status, issued one fetch, is rejected once it completes and commits no
\* update action.
C8_FailedRequestRejects ==
    \A c \in DOMAIN calls :
        (calls[c].error = FetchFailed \/ calls[c].response = "error")
        => /\ Len(calls[c].fetches) = 1
           /\ calls[c].commits = <<>>
           /\ calls[c].pc # "fulfilled"

Operations == {"create", "read", "get", "update", "delete"}

Completed(c) == calls[c].pc \in {"fulfilled", "rejected"}

\* the calls on a resource whose tracking dispatch resolved, in that order
SettledOn(r) == SelectSeq(settled, LAMBDA c : calls[c].resource = r)

\* C10: once the calls in flight on a resource have completed, the store
\* holds for it the value committed by the call whose tracking dispatch
\* resolved last, whatever the order the calls were made in.
C10_LastResolvedWins ==
    \A r \in DOMAIN store :
        LET s == SettledOn(r)
        IN  (s # <<>> /\ \A c \in DOMAIN calls :
                            (Started(c) /\ calls[c].resource = r) => Completed(c))
            => store[r] = ExpectedCommit(calls[s[Len(s)]].value)

C10_Witness ==
    /\ \A c \in DOMAIN calls : Completed(c)
    /\ Len(settled) >= 2
    /\ settled[Len(settled)] = 1
    /\ settled[Len(settled) - 1] = 2
    /\ calls[1].value.t = "array"
    /\ calls[2].value.t = "object"
    /\ store[Book] = calls[1].commits[1].payload
    /\ store[Book] # calls[2].commits[1].payload

====
